---- MODULE Spec2Model ----
(***************************************************************************)
(* LychiiBot (src/src/index.js): the message acceptance and routing core   *)
(* and the plugin registration lifecycle, as a state machine.              *)
(*                                                                         *)
(* One step of the machine is one callback run to completion by the Node   *)
(* event loop (init, the readdir callback, or one transport event          *)
(* handler).  `turn` records what that callback did; EndTurn is the return *)
(* to the event loop.                                                      *)
(*                                                                         *)
(* JavaScript values: null / undefined objects are the empty tuple Null,   *)
(* a present object or string v is <<v>>; an undefined scalar field is     *)
(* the string Undefined.  Strings are sequences of one-character strings.  *)
(***************************************************************************)
EXTENDS Integers, Sequences, FiniteSets, TLC

VARIABLES
  autoReconnect,   \* config.autoReconnect
  storage,         \* config.storage && config.storage.mongo.enable
  pluginsModule,   \* what require('./plugins') yields: <<list>> or Null (falsy)
  pluginsDir,      \* the plugin definitions fs.readdir finds, in readdir order
  client,          \* this.client: "null", "created" (adapter built), "started"
  self,            \* this.self: Null or <<[id, name, botId]>>
  team,            \* this.team: Null or <<[id, name]>>
  users,           \* this.users: Null or <<directory>>
  defaultChannel,  \* this.defaultChannel: Null or <<[id, name]>>
  plugins,         \* this.plugins: the registry, in registration order
  readdirPending,  \* the fs.readdir callback of loadPlugins is still to run
  proc,            \* the process: "running", "crashed" (uncaught), "exit1"
  turn             \* the callback run in this event-loop turn, or Idle

vars == <<autoReconnect, storage, pluginsModule, pluginsDir, client, self, team, users,
          defaultChannel, plugins, readdirPending, proc, turn>>

botVars == <<self, team, users, defaultChannel>>
cfgVars == <<autoReconnect, storage, pluginsModule, pluginsDir>>

----------------------------------------------------------------------------
(* Bounds *)

MaxLen == 3       \* longest message text drawn for the filter specification
MaxText == 4      \* longest message text drawn for the normalizer specification
MaxPlugins == 2   \* longest plugin list drawn

----------------------------------------------------------------------------
(* JavaScript values *)

Null == << >>
Undefined == "undefined"
Some(v) == <<v>>
Val(o) == o[1]

SeqsUpTo(S, n) == UNION {[1..k -> S] : k \in 0..n}

----------------------------------------------------------------------------
(* Strings and the self-recognition regular expression *)

Chars == {"@", "b", "B", " ", "x"}
Whitespace == {" "}

\* String.prototype.toLowerCase on one character ('i' flag canonicalisation)
Lower(c) == IF c = "B" THEN "b" ELSE c

\* String(undefined): what RegExp.prototype.test sees for an absent text
UndefinedStr == <<"u", "n", "d", "e", "f", "i", "n", "e", "d">>
ToStr(text) == IF text = Null THEN UndefinedStr ELSE Val(text)

\* String.prototype.trim
RECURSIVE TrimLeft(_)
TrimLeft(s) ==
  IF s # << >> /\ Head(s) \in Whitespace THEN TrimLeft(Tail(s)) ELSE s

RECURSIVE TrimRight(_)
TrimRight(s) ==
  IF s # << >> /\ s[Len(s)] \in Whitespace
  THEN TrimRight(SubSeq(s, 1, Len(s) - 1)) ELSE s

Trim(s) == TrimRight(TrimLeft(s))

\* One pattern character of the interpolated name against one text character,
\* under the 'i' flag: the name is not escaped, so "." is the wildcard.
AtomMatches(p, c) == IF p = "." THEN TRUE ELSE Lower(p) = Lower(c)

\* ${name}\s matched against s starting at position from
NameThenSpaceAt(name, s, from) ==
  /\ from + Len(name) <= Len(s)
  /\ \A i \in 1..Len(name) : AtomMatches(name[i], s[from + i - 1])
  /\ s[from + Len(name)] \in Whitespace

\* new RegExp(`^(@?${name}\\s)`, 'i') applied to s: the length of the match
\* at the start of s, 0 when there is none (a match has at least 1 character).
\* "@?" is greedy and backtracks.
MatchLen(name, s) ==
  IF Len(s) >= 1 /\ s[1] = "@" /\ NameThenSpaceAt(name, s, 2)
  THEN Len(name) + 2
  ELSE IF NameThenSpaceAt(name, s, 1) THEN Len(name) + 1 ELSE 0

\* selfRecognizeRegex.test(text)
RegexTest(name, text) == MatchLen(name, ToStr(text)) > 0

\* str.replace(selfRecognizeRegex, '')
RegexStrip(name, s) == SubSeq(s, MatchLen(name, s) + 1, Len(s))

----------------------------------------------------------------------------
(* Inputs: plugin definitions, authentication payloads, inbound events *)

DefaultChannelName == "general"   \* config.defaultChannel
SelfId == "U0"                    \* identity.self.id
OtherId == "U1"
SelfBotId == "B1"                 \* profile.bot_id of the bot's directory entry
OtherBotId == "B9"

\* A plugin definition: whether the class defines init(), and whether init()
\* and processMessage() return or throw.
HiJelly == [name |-> "HiJelly", init |-> "ok", proc |-> "ok"]
BadInit == [name |-> "BadInit", init |-> "throws", proc |-> "ok"]
BadProc == [name |-> "BadProc", init |-> "none", proc |-> "throws"]
PluginDefs == {HiJelly, BadInit, BadProc}
PluginLists == SeqsUpTo(PluginDefs, MaxPlugins)

Team == [id |-> "T0", name |-> "team"]
SelfEntry == [id |-> SelfId, bot_id |-> SelfBotId]
OtherEntry == [id |-> OtherId, bot_id |-> OtherBotId]
General == [id |-> "G1", name |-> "general"]
Random == [id |-> "G2", name |-> "random"]

Payload(name, dir, groups) ==
  [self |-> [id |-> SelfId, name |-> name], team |-> Team,
   users |-> dir, groups |-> groups]

Payloads ==
  {Payload(<<"b">>, d, g) :
     d \in {<<OtherEntry>>, <<OtherEntry, SelfEntry>>},
     g \in {<<Random>>, <<General, Random>>, <<Random, General>>}}

FilterPayloads ==
  {Payload(n, d, <<General>>) :
     n \in {<<"b">>, <<"b", ".">>},
     d \in {<<OtherEntry>>, <<SelfEntry>>}}

JoinLeaveSubtypes ==
  {"channel_join", "group_join", "channel_leave", "group_leave"}
TopicSubtypes == {"channel_topic", "group_topic"}
Subtypes ==
  JoinLeaveSubtypes \cup TopicSubtypes
    \cup {"message", "bot_message", "message_changed", Undefined}

MetaMsg(text, user, bot, channel, subtype, isDM) ==
  [text |-> text, user |-> user, bot |-> bot, channel |-> channel,
   subtype |-> subtype, isDM |-> isDM]

NoMsg == MetaMsg(Null, Undefined, Undefined, Undefined, Undefined, FALSE)

\* (user, bot) of an event: no sender, the bot itself, somebody else
Senders ==
  {<<Undefined, Undefined>>, <<SelfId, Undefined>>, <<OtherId, Undefined>>,
   <<Undefined, SelfBotId>>, <<Undefined, OtherBotId>>, <<OtherId, SelfBotId>>}

EventTexts == {Null, Some(<<"b", " ", "x">>)}
EventSenders == {<<Undefined, Undefined>>, <<OtherId, Undefined>>}
EventChannels == {"general", Undefined}

Texts == {Null} \cup {Some(t) : t \in SeqsUpTo(Chars, MaxLen)}

LongTexts == {Some(t) : t \in SeqsUpTo(Chars, MaxText)}

FilterEvent(t, s, dm) == MetaMsg(t, s[1], s[2], "general", Undefined, dm)

----------------------------------------------------------------------------
(* The event-loop turn *)

Turn(kind, raw, msg, ran, accepted, forwarded, invoked, log, effects, threw) ==
  [kind |-> kind, raw |-> raw, msg |-> msg, ran |-> ran,
   accepted |-> accepted, forwarded |-> forwarded, invoked |-> invoked,
   log |-> log, effects |-> effects, threw |-> threw,
   identity |-> Null]   \* the payload, in an authenticated turn

Idle == Turn("idle", NoMsg, NoMsg, FALSE, FALSE, FALSE, << >>, << >>, << >>, FALSE)

\* A turn that is not a message turn
Plain(kind, log, effects, threw) ==
  Turn(kind, NoMsg, NoMsg, FALSE, FALSE, FALSE, << >>, log, effects, threw)

\* An exception that leaves a callback reaches the caller outside this file
\* (the bootstrap, the adapter's emitter, the fs callback): the process dies
\* of it or the caller swallows it.
Uncaught(threw) ==
  IF threw THEN proc' \in {"crashed", "running"} ELSE proc' = proc

Ready == proc = "running" /\ client = "started" /\ turn = Idle

----------------------------------------------------------------------------
(* Plugin registry: registerPlugin, loadPlugins *)

\* registerPlugin(plugin) on registry reg: the instance is pushed, then its
\* init() runs when the class defines one; init() may throw.
registerPlugin(reg, plugin) ==
  [plugins |-> Append(reg, plugin), threw |-> plugin.init = "throws"]

\* list.map(plugin => this.registerPlugin(plugin)): in list order, the first
\* exception ends the map.
RECURSIVE registerAll(_, _)
registerAll(reg, list) ==
  IF list = << >> THEN [plugins |-> reg, threw |-> FALSE]
  ELSE LET r == registerPlugin(reg, Head(list))
       IN  IF r.threw THEN r ELSE registerAll(r.plugins, Tail(list))

\* init(): the adapter is built and the handlers are attached, loadPlugins()
\* runs, then client.start().  With a plugin list loadPlugins registers it at
\* once; without one it only schedules fs.readdir and returns.
BotInit ==
  /\ proc = "running" /\ client = "null" /\ turn = Idle
  /\ IF pluginsModule # Null
     THEN LET r == registerAll(plugins, Val(pluginsModule))
          IN  /\ plugins' = r.plugins
              /\ client' = IF r.threw THEN "created" ELSE "started"
              /\ turn' = Plain("init", << >>, << >>, r.threw)
              /\ Uncaught(r.threw)
              /\ UNCHANGED readdirPending
     ELSE /\ readdirPending' = TRUE
          /\ client' = "started"
          /\ turn' = Plain("init", << >>, << >>, FALSE)
          /\ UNCHANGED <<plugins, proc>>
  /\ UNCHANGED <<botVars, cfgVars>>

\* The 'error' listener init() attaches to mongoose.connection when storage
\* is enabled: it throws.
OnStorageError ==
  /\ proc = "running" /\ storage /\ client # "null" /\ turn = Idle
  /\ turn' = Plain("storage error", << >>, << >>, TRUE)
  /\ Uncaught(TRUE)
  /\ UNCHANGED <<botVars, cfgVars, client, plugins, readdirPending>>

\* The fs.readdir callback of loadPlugins: every plugin directory found is
\* required and registered, in readdir order.
ReaddirCallback ==
  /\ proc = "running" /\ readdirPending /\ turn = Idle
  /\ LET r == registerAll(plugins, pluginsDir)
     IN  /\ plugins' = r.plugins
         /\ turn' = Plain("readdir", << >>, << >>, r.threw)
         /\ Uncaught(r.threw)
  /\ readdirPending' = FALSE
  /\ UNCHANGED <<botVars, cfgVars, client>>

----------------------------------------------------------------------------
(* Identity: onAuthenticated, onConnected, onDisconnected, onReactionAdded *)

Last(S) == CHOOSE i \in S : \A j \in S : j <= i

\* the "get bot_id" loop: the last directory entry with the bot's id wins
BotIdOf(dir, id) ==
  LET hits == {i \in 1..Len(dir) : dir[i].id = id}
  IN  IF hits = {} THEN Undefined ELSE dir[Last(hits)].bot_id

\* the default-channel loop looking at the first group only
ChannelOfHead(groups, old) ==
  IF groups # << >> /\ Head(groups).name = DefaultChannelName
  THEN Some(Head(groups)) ELSE old

\* the default-channel loop: the last group of that name wins, and without
\* one this.defaultChannel keeps the value it had
ChannelOf(groups, old) ==
  LET hits == {i \in 1..Len(groups) : groups[i].name = DefaultChannelName}
  IN  IF hits = {} THEN old ELSE Some(groups[Last(hits)])

onAuthenticated(identity) ==
  LET dc == ChannelOf(identity.groups, defaultChannel)
  IN  /\ self' = Some([id |-> identity.self.id, name |-> identity.self.name,
                       botId |-> BotIdOf(identity.users, identity.self.id)])
      /\ team' = Some(identity.team)
      /\ users' = Some(identity.users)
      /\ defaultChannel' = dc
      \* line 127 reads this.defaultChannel.name
      /\ turn' = [Plain("authenticated",
                             IF dc = Null THEN <<"login">>
                                          ELSE <<"login", "default channel">>,
                             << >>, dc = Null)
                   EXCEPT !.identity = Some(identity)]
      /\ Uncaught(dc = Null)

OnAuthenticated(identity) ==
  /\ Ready
  /\ onAuthenticated(identity)
  /\ UNCHANGED <<cfgVars, client, plugins, readdirPending>>

\* onConnected: the greeting reads this.self.name and is sent to
\* this.defaultChannel, whatever that is
OnConnected ==
  /\ Ready
  /\ IF self = Null
     THEN /\ turn' = Plain("connected", <<"connected">>, << >>, TRUE)
          /\ Uncaught(TRUE)
     ELSE /\ turn' = Plain("connected", <<"connected">>,
                           <<[op |-> "send", channel |-> defaultChannel]>>,
                           FALSE)
          /\ UNCHANGED proc
  /\ UNCHANGED <<cfgVars, botVars, client, plugins, readdirPending>>

\* onDisconnected with process.exit(1) before client.disconnect()
onDisconnectedExitFirst ==
  IF autoReconnect
  THEN /\ turn' = Plain("disconnected", <<"waiting for reconnect">>, << >>, FALSE)
       /\ UNCHANGED <<client, proc>>
  ELSE /\ turn' = Plain("disconnected", <<"terminating">>,
                        <<[op |-> "exit", status |-> 1]>>, FALSE)
       /\ UNCHANGED client
       /\ proc' = "exit1"

onDisconnected ==
  IF autoReconnect
  THEN /\ turn' = Plain("disconnected", <<"waiting for reconnect">>, << >>, FALSE)
       /\ UNCHANGED <<client, proc>>
  ELSE /\ turn' = Plain("disconnected", <<"terminating">>,
                        <<[op |-> "disconnect"],
                          [op |-> "exit", status |-> 1]>>, FALSE)
       /\ client' = "disconnected"
       /\ proc' = "exit1"

OnDisconnected ==
  /\ Ready
  /\ onDisconnected
  /\ UNCHANGED <<cfgVars, botVars, plugins, readdirPending>>

OnReactionAdded ==
  /\ Ready
  /\ turn' = Plain("reaction", <<"reaction added">>, << >>, FALSE)
  /\ UNCHANGED <<cfgVars, botVars, client, plugins, readdirPending, proc>>

----------------------------------------------------------------------------
(* Message pipeline: isAcceptable, trimMessage, processMessage,            *)
(* onIncomingMessage                                                       *)

\* isAcceptable with the direct-message test moved in front of the
\* self-origin tests
isAcceptableDirectFirst(metaMsg, name) ==
  IF metaMsg.isDM THEN TRUE
  ELSE IF metaMsg.user # Undefined /\ metaMsg.user = Val(self).id THEN FALSE
  ELSE IF metaMsg.bot # Undefined /\ metaMsg.bot = Val(self).botId THEN FALSE
  ELSE RegexTest(name, metaMsg.text)

\* isAcceptable without the "user &&" and "bot &&" guards
isAcceptableUnguarded(metaMsg, name) ==
  IF metaMsg.user = Val(self).id THEN FALSE
  ELSE IF metaMsg.bot = Val(self).botId THEN FALSE
  ELSE IF metaMsg.isDM THEN TRUE
  ELSE RegexTest(name, metaMsg.text)

\* isAcceptable(metaMsg, selfRecognizeRegex), the regex given by the name it
\* was built from
isAcceptable(metaMsg, name) ==
  IF metaMsg.user # Undefined /\ metaMsg.user = Val(self).id THEN FALSE
  ELSE IF metaMsg.bot # Undefined /\ metaMsg.bot = Val(self).botId THEN FALSE
  ELSE IF metaMsg.isDM THEN TRUE
  ELSE RegexTest(name, metaMsg.text)

\* trimMessage without the trim() of line 202
trimMessageNoTrim(metaMsg, name) ==
  [metaMsg EXCEPT !.text = Some(RegexStrip(name, Val(metaMsg.text)))]

\* trimMessage(metaMsg, selfRecognizeRegex) on a present text
trimMessage(metaMsg, name) ==
  [metaMsg EXCEPT !.text = Some(RegexStrip(name, Trim(Val(metaMsg.text))))]

\* this.plugins.map(plugin => plugin.processMessage(metaMsg)): the registry
\* positions whose processMessage is entered; the first exception ends the map
Throwers(reg) == {i \in 1..Len(reg) : reg[i].proc = "throws"}
First(S) == CHOOSE i \in S : \A j \in S : i <= j

fanOut(reg) ==
  IF Throwers(reg) = {} THEN [n \in 1..Len(reg) |-> n]
  ELSE [n \in 1..First(Throwers(reg)) |-> n]

processMessage(metaMsg, raw, log) ==
  /\ turn' = Turn("message", raw, metaMsg, TRUE, TRUE, TRUE, fanOut(plugins),
                  log \o <<"processing">>, << >>, Throwers(plugins) # {})
  /\ Uncaught(Throwers(plugins) # {})

\* the subtype switch of onIncomingMessage, after the filter and the trim
classify(metaMsg, raw) ==
  LET subtype == IF metaMsg.subtype = Undefined THEN "message"
                 ELSE metaMsg.subtype
      Logged(tag) ==
        \* every branch's debug line reads channel.name
        IF metaMsg.channel = Undefined
        THEN /\ turn' = Turn("message", raw, metaMsg, TRUE, TRUE, FALSE,
                             << >>, << >>, << >>, TRUE)
             /\ Uncaught(TRUE)
        ELSE /\ turn' = Turn("message", raw, metaMsg, TRUE, TRUE, FALSE,
                             << >>, <<tag>>, << >>, FALSE)
             /\ UNCHANGED proc
  IN  IF subtype \in {"channel_join", "group_join"} THEN Logged("joined")
      ELSE IF subtype \in {"channel_leave", "group_leave"} THEN Logged("left")
      ELSE IF subtype \in {"channel_topic", "group_topic"} THEN Logged("topic")
      ELSE IF metaMsg.channel = Undefined THEN Logged("received")
      ELSE processMessage(metaMsg, raw, <<"received">>)

\* onIncomingMessage with trimMessage called before the filter
onIncomingMessageTrimFirst(metaMsg) ==
  IF self = Null
  THEN /\ turn' = Turn("message", metaMsg, metaMsg, FALSE, FALSE, FALSE,
                       << >>, << >>, << >>, TRUE)
       /\ Uncaught(TRUE)
  ELSE IF metaMsg.text = Null
  THEN /\ turn' = Turn("message", metaMsg, metaMsg, FALSE, FALSE, FALSE,
                       << >>, << >>, << >>, TRUE)
       /\ Uncaught(TRUE)
  ELSE LET name == Val(self).name
           trimmed == trimMessage(metaMsg, name)
       IN  IF ~isAcceptable(metaMsg, name)
           THEN /\ turn' = Turn("message", metaMsg, trimmed, TRUE, FALSE, FALSE,
                                << >>, << >>, << >>, FALSE)
                /\ UNCHANGED proc
           ELSE classify(trimmed, metaMsg)

onIncomingMessage(metaMsg) ==
  IF self = Null
  THEN \* line 153 reads this.self.name
       /\ turn' = Turn("message", metaMsg, metaMsg, FALSE, FALSE, FALSE,
                       << >>, << >>, << >>, TRUE)
       /\ Uncaught(TRUE)
  ELSE LET name == Val(self).name
       IN  IF ~isAcceptable(metaMsg, name)
           THEN /\ turn' = Turn("message", metaMsg, metaMsg, TRUE, FALSE, FALSE,
                                << >>, << >>, << >>, FALSE)
                /\ UNCHANGED proc
           ELSE IF metaMsg.text = Null
           THEN \* trimMessage calls undefined.trim()
                /\ turn' = Turn("message", metaMsg, metaMsg, TRUE, TRUE, FALSE,
                                << >>, << >>, << >>, TRUE)
                /\ Uncaught(TRUE)
           ELSE classify(trimMessage(metaMsg, name), metaMsg)

OnIncomingMessage(metaMsg) ==
  /\ Ready
  /\ onIncomingMessage(metaMsg)
  /\ UNCHANGED <<cfgVars, botVars, client, plugins, readdirPending>>

\* the callback returns and the event loop takes the next event
EndTurn ==
  /\ proc = "running" /\ turn # Idle
  /\ turn' = Idle
  /\ UNCHANGED <<cfgVars, botVars, client, plugins, readdirPending, proc>>

----------------------------------------------------------------------------
(* Specifications *)

New ==
  /\ client = "null" /\ self = Null /\ team = Null /\ users = Null
  /\ defaultChannel = Null /\ plugins = << >>
  /\ readdirPending = FALSE /\ proc = "running" /\ turn = Idle

\* the transport emits an event and the attached handler runs (init, the
\* client.on lines)
EmitAuthenticated == Ready /\ \E identity \in Payloads : OnAuthenticated(identity)

EmitMessage ==
  Ready /\ \E t \in EventTexts, s \in EventSenders, c \in EventChannels,
              st \in Subtypes, dm \in BOOLEAN :
             OnIncomingMessage(MetaMsg(t, s[1], s[2], c, st, dm))

\* any configuration, a few events
Init ==
  /\ New
  /\ autoReconnect \in BOOLEAN
  /\ storage \in BOOLEAN
  /\ \E list \in PluginLists :
       \/ pluginsModule = Some(list) /\ pluginsDir = << >>
       \/ pluginsModule = Null /\ pluginsDir = list

Next ==
  \/ BotInit
  \/ OnStorageError
  \/ ReaddirCallback
  \/ EmitAuthenticated
  \/ OnConnected
  \/ EmitMessage
  \/ OnReactionAdded
  \/ OnDisconnected
  \/ EndTurn

Spec == Init /\ [][Next]_vars

EmitFilterAuthenticated ==
  Ready /\ \E identity \in FilterPayloads : OnAuthenticated(identity)

EmitFilterMessage ==
  Ready /\ \E t \in Texts, s \in Senders, dm \in BOOLEAN :
             OnIncomingMessage(FilterEvent(t, s, dm))

\* one working plugin and no storage, every text up to MaxLen from every
\* sender
InitFilter ==
  /\ New
  /\ autoReconnect \in BOOLEAN
  /\ storage = FALSE
  /\ \/ pluginsModule = Some(<<HiJelly>>) /\ pluginsDir = << >>
     \/ pluginsModule = Null /\ pluginsDir = <<HiJelly>>

NextFilter ==
  \/ BotInit
  \/ ReaddirCallback
  \/ EmitFilterAuthenticated
  \/ OnConnected
  \/ EmitFilterMessage
  \/ OnReactionAdded
  \/ OnDisconnected
  \/ EndTurn

SpecFilter == InitFilter /\ [][NextFilter]_vars

EmitTextMessage ==
  Ready /\ \E t \in LongTexts, dm \in BOOLEAN :
             OnIncomingMessage(FilterEvent(t, <<OtherId, Undefined>>, dm))

NextText ==
  \/ BotInit
  \/ ReaddirCallback
  \/ EmitFilterAuthenticated
  \/ OnConnected
  \/ EmitTextMessage
  \/ OnReactionAdded
  \/ OnDisconnected
  \/ EndTurn

\* one working plugin, every text up to MaxText from another user
SpecText == InitFilter /\ [][NextText]_vars

----------------------------------------------------------------------------
(* Plugin dispatch *)

MessageTurn == turn.kind = "message"
Forwarded == MessageTurn /\ turn.forwarded
AllInOrder(reg) == [n \in 1..Len(reg) |-> n]

\* C1: for every event forwarded to the fan-out, processMessage is invoked
\* exactly once on every registered plugin, in registration order.
C1_EveryPluginInRegistrationOrder ==
  Forwarded => turn.invoked = AllInOrder(plugins)

\* C2: when a plugin's processMessage throws, the plugins registered after it
\* are still invoked for the event and the failure stays in the Dispatcher.
C2_PluginFailureIsolated ==
  (Forwarded /\ Throwers(plugins) # {}) =>
     /\ \A i \in 1..Len(plugins) : \E n \in 1..Len(turn.invoked) : turn.invoked[n] = i
     /\ ~turn.threw
     /\ proc = "running"

----------------------------------------------------------------------------
(* Acceptance Filter *)

\* the sender of m is the bot: a user with the bot's id, or a service
\* identity with the bot's service-identity id
SelfAuthored(m) ==
  \/ m.user # Undefined /\ m.user = Val(self).id
  \/ m.bot # Undefined /\ m.bot = Val(self).botId

Filtered == MessageTurn /\ turn.ran

\* C3: a self-authored event is rejected whatever its text and directness,
\* and reaches no plugin.
C3_SelfAuthoredRejected ==
  (Filtered /\ SelfAuthored(turn.raw)) =>
     ~turn.accepted /\ ~turn.forwarded /\ turn.invoked = << >>

C3_Witness ==
  /\ Filtered /\ turn.raw.isDM /\ turn.raw.bot = SelfBotId
  /\ Val(self).botId = SelfBotId /\ turn.raw.user = OtherId
  /\ turn.raw.text = Some(<<"b", " ", "x">>) /\ ~turn.accepted

\* text begins with an optional "@", the name letter for letter up to case,
\* then a whitespace character
BeginsWithMention(name, text) ==
  /\ text # Null
  /\ LET s == Val(text)
         at == IF s # << >> /\ s[1] = "@" THEN 1 ELSE 0
     IN  /\ Len(s) >= at + Len(name) + 1
         /\ \A i \in 1..Len(name) : Lower(s[at + i]) = Lower(name[i])
         /\ s[at + Len(name) + 1] \in Whitespace

\* C4: a non-direct event that is not self-authored is accepted if and only
\* if its text begins with the mention prefix of the bot's display name.
C4_AcceptedIffMention ==
  (Filtered /\ ~turn.raw.isDM /\ ~SelfAuthored(turn.raw)) =>
     (turn.accepted <=> BeginsWithMention(Val(self).name, turn.raw.text))

\* C5: a direct message that is not self-authored is accepted whatever its
\* text; an event without sender is not self-authored and is decided by the
\* direct-message and mention steps alone.
C5_DirectAcceptedNoSenderFallsThrough ==
  Filtered =>
     /\ (turn.raw.isDM /\ ~SelfAuthored(turn.raw)) => turn.accepted
     /\ (turn.raw.user = Undefined /\ turn.raw.bot = Undefined) =>
          (turn.accepted <=>
             (turn.raw.isDM \/ RegexTest(Val(self).name, turn.raw.text)))

C5_Witness ==
  /\ Filtered /\ turn.raw.isDM /\ turn.accepted
  /\ turn.raw.user = Undefined /\ turn.raw.bot = Undefined
  /\ Val(self).botId = Undefined
  /\ turn.raw.text = Some(<< >>)

----------------------------------------------------------------------------
(* Classification *)

EffectiveSubtype(m) == IF m.subtype = Undefined THEN "message" ELSE m.subtype

\* C6: an accepted event is forwarded to the fan-out if and only if its
\* effective subtype is none of the join, leave and topic-change subtypes.
C6_ForwardedIffMessageCategory ==
  (MessageTurn /\ turn.accepted) =>
     (turn.forwarded <=>
        EffectiveSubtype(turn.raw) \notin JoinLeaveSubtypes \cup TopicSubtypes)

\* C7: handling an event the filter rejects changes no field of the event,
\* logs nothing, invokes no plugin and leaves identity and registry alone.
C7_RejectedUntouched ==
  [][(turn'.kind = "message" /\ turn'.ran /\ ~turn'.accepted) =>
        /\ turn'.msg = turn'.raw
        /\ turn'.log = << >>
        /\ turn'.invoked = << >> /\ ~turn'.forwarded
        /\ UNCHANGED <<botVars, plugins>>]_vars

C7_Witness ==
  /\ Filtered /\ ~turn.accepted /\ ~turn.raw.isDM
  /\ turn.raw.text = Some(<<" ", "b", " ">>)
  /\ turn.msg = turn.raw

----------------------------------------------------------------------------
(* Plugin loading *)

\* C8: after loadPlugins over n plugin definitions the registry holds the n
\* instances in list order and no init failure leaves loadPlugins.
C8_LoadRegistersEveryPlugin ==
  /\ (turn.kind = "init" /\ pluginsModule # Null) =>
        plugins = Val(pluginsModule) /\ ~turn.threw
  /\ turn.kind = "readdir" => plugins = pluginsDir /\ ~turn.threw

----------------------------------------------------------------------------
(* Disconnection *)

Ops(effects) == [n \in 1..Len(effects) |-> effects[n].op]

\* C9: on disconnection without autoReconnect, disconnect() is called, then
\* the process exits with status 1 and nothing runs afterwards; with
\* autoReconnect neither happens and the bot goes on.
C9_DisconnectPolicy ==
  [][/\ proc # "exit1"
     /\ turn'.kind = "disconnected" =>
          IF autoReconnect
          THEN /\ turn'.effects = << >>
               /\ proc' = "running" /\ client' = "started"
          ELSE /\ Ops(turn'.effects) = <<"disconnect", "exit">>
               /\ turn'.effects[2].status = 1
               /\ proc' = "exit1"]_vars

C9_Witness ==
  /\ turn.kind = "disconnected" /\ ~autoReconnect
  /\ proc = "exit1" /\ client = "disconnected"

----------------------------------------------------------------------------
(* Identity *)

IdentityAbsent ==
  self = Null /\ team = Null /\ users = Null /\ defaultChannel = Null

IdentityFull ==
  /\ self # Null /\ team # Null /\ users # Null /\ defaultChannel # Null
  /\ Val(self).botId # Undefined

\* C10: whenever an event can be handled, the Identity is wholly absent or
\* fully populated.
C10_IdentityWhole == Ready => (IdentityAbsent \/ IdentityFull)

----------------------------------------------------------------------------
(* Error handling *)

Logs(tag) == \E n \in 1..Len(turn.log) : turn.log[n] = tag

\* C11: a payload without a channel named config.defaultChannel ends the
\* authenticated handler in a reported configuration error, never in a
\* null dereference there, and no greeting is sent to an absent channel.
C11_MissingChannelReported ==
  /\ (turn.kind = "authenticated" /\ defaultChannel = Null) =>
        ~turn.threw /\ Logs("configuration error")
  /\ turn.kind = "connected" =>
        \A n \in 1..Len(turn.effects) : turn.effects[n].channel # Null

\* C12: a failure of the filter, the normalizer or the classifier on one
\* event is logged and stays inside the message handler; the event reaches
\* no plugin and the bot goes on.
C12_PipelineFailureContained ==
  (MessageTurn /\ ~turn.forwarded) =>
     ~turn.threw /\ turn.invoked = << >> /\ proc = "running"

----------------------------------------------------------------------------
(* Message Normalizer *)

\* the length of the mention prefix s begins with, 0 when it begins with none
MentionLen(name, s) ==
  IF BeginsWithMention(name, Some(s))
  THEN (IF s[1] = "@" THEN 1 ELSE 0) + Len(name) + 1
  ELSE 0

\* s without the mention prefix it begins with
Rest(name, s) == SubSeq(s, MentionLen(name, s) + 1, Len(s))

\* C13: the text plugins receive is the raw text trimmed, then without one
\* leading mention prefix.
C13_DeliveredIsTrimmedThenStripped ==
  Forwarded =>
     turn.msg.text = Some(Rest(Val(self).name, Trim(Val(turn.raw.text))))

\* C14: a text without leading or trailing whitespace that begins with no
\* mention prefix is delivered unchanged, and normalizing it again changes
\* nothing.
C14_NormalizedTextUnchanged ==
  (/\ Forwarded
   /\ Trim(Val(turn.raw.text)) = Val(turn.raw.text)
   /\ ~BeginsWithMention(Val(self).name, turn.raw.text)) =>
     /\ turn.msg.text = turn.raw.text
     /\ trimMessage(turn.msg, Val(self).name) = turn.msg

Mentioned ==
  /\ Forwarded /\ ~turn.raw.isDM
  /\ BeginsWithMention(Val(self).name, turn.raw.text)

\* C20 as stated: a non-direct event accepted for its mention prefix is
\* delivered without that prefix.
C20_PrefixAlwaysRemoved ==
  Mentioned =>
     Val(turn.msg.text) = TrimRight(Rest(Val(self).name, Val(turn.raw.text)))

\* C20: a non-direct event accepted for its mention prefix is delivered
\* without that prefix when a non-whitespace character follows the prefix;
\* when none does, the trimmed text is delivered with the name still in it.
C20_PrefixRemovedWhenTextFollows ==
  Mentioned =>
     LET rest == Rest(Val(self).name, Val(turn.raw.text))
     IN  IF Trim(rest) # << >>
         THEN Val(turn.msg.text) = TrimRight(rest)
         ELSE Val(turn.msg.text) = Trim(Val(turn.raw.text))

C20_Witness ==
  /\ Mentioned
  /\ turn.raw.text = Some(<<"@", "B", " ", "x">>)
  /\ turn.msg.text = Some(<<"x">>)

----------------------------------------------------------------------------
(* Identity Context *)

Authenticated == turn.kind = "authenticated"

DirectoryHits(identity) ==
  {i \in 1..Len(identity.users) : identity.users[i].id = identity.self.id}

ChannelHits(identity) ==
  {j \in 1..Len(identity.groups) :
     identity.groups[j].name = DefaultChannelName}

\* C15: after an authenticated event the service-identity id is the bot_id of
\* the directory entry with the bot's id, and the default channel is the
\* payload's group named config.defaultChannel, wherever it is in the list.
C15_IdentityResolved ==
  Authenticated =>
     LET identity == Val(turn.identity)
     IN  /\ \A i \in DirectoryHits(identity) :
              Val(self).botId = identity.users[i].bot_id
         /\ \A j \in ChannelHits(identity) :
              defaultChannel = Some(identity.groups[j])

C15_Witness ==
  /\ Authenticated
  /\ Val(turn.identity).users = <<OtherEntry, SelfEntry>>
  /\ Val(turn.identity).groups = <<Random, General>>
  /\ Val(self).botId = "B1"
  /\ Val(defaultChannel).name = "general"

\* C17: after every authenticated event each identity field comes from that
\* event's payload alone.
C17_IdentityFromLatestPayload ==
  Authenticated =>
     LET identity == Val(turn.identity)
     IN  /\ Val(self).id = identity.self.id
         /\ Val(self).name = identity.self.name
         /\ team = Some(identity.team)
         /\ users = Some(identity.users)
         /\ DirectoryHits(identity) = {} => Val(self).botId = Undefined
         /\ ChannelHits(identity) = {} => defaultChannel = Null

----------------------------------------------------------------------------
(* Storage *)

\* C16: after the storage collaborator reports a connection error the
\* process keeps running and goes on routing messages.
C16_StorageFailureTolerated ==
  turn.kind = "storage error" => proc = "running"

----------------------------------------------------------------------------
(* Loading before start *)

\* the plugins the configuration names: the list, or the directory's own
Configured == IF pluginsModule # Null THEN Val(pluginsModule) ELSE pluginsDir

\* C19: on both loading paths every plugin is registered before the
\* transport starts, so a forwarded message never meets a registry that is
\* still being filled and is seen by the full set of plugins.
C19_LoadedBeforeStart ==
  Forwarded => ~readdirPending /\ plugins = Configured

====
